---- MODULE Spec2Model ----
(***************************************************************************)
(* Model of july/helpers.py: the calendar grid builder (date_grid) and the *)
(* label placement of the renderer (cal_heatmap, add_date_label,           *)
(* add_weekday_label, add_month_label, add_year_label).                    *)
(*                                                                         *)
(* A date is a record [year, month, day].  A Python/numpy value is a pair  *)
(* <<tag, payload>>: <<"int", n>>, <<"float", n>>, <<"str", s>>,           *)
(* <<"nan", 0>> (float NaN) and <<"None", 0>> (the object None).  A grid   *)
(* is a record [shape |-> <<rows, cols>>, cells |-> [<<r, c>> |-> value]]. *)
(* A position computed with "/ 2" is kept exact as a fraction <<num, den>>.*)
(***************************************************************************)
EXTENDS Integers, Sequences, FiniteSets, TLC

VARIABLES pc, op, dates, data, flip, dtype, opts, ret

vars == <<pc, op, dates, data, flip, dtype, opts, ret>>

(***************************************************************************)
(* Bounds of the model and the inputs that are enumerated.                 *)
(***************************************************************************)
MaxLen == 3

Date(y, m, d) == [year |-> y, month |-> m, day |-> d]

\* 2018-12-30 is ISO 2018-W52-7; 2018-12-31 and 2019-01-01 are both in ISO
\* 2019-W01; 2020-01-01 is ISO 2020-W01; 2021-01-01 is ISO 2020-W53-5;
\* 2021-01-08 is ISO 2021-W01-5.
DateUniverse ==
  { Date(2018, 12, 30), Date(2018, 12, 31), Date(2019, 1, 1),
    Date(2020, 1, 1), Date(2021, 1, 1), Date(2021, 1, 8) }

\* Six Mondays: three January weeks (rows 0..2) then three February weeks
\* (rows 3..5) of 2019.
\* The dates the renderer is fed: a week that spans two calendar years and
\* two months, and a later year whose first day is in the last ISO week of
\* the year before.
RenderUniverse ==
  { Date(2018, 12, 30), Date(2018, 12, 31), Date(2019, 1, 1),
    Date(2021, 1, 1), Date(2021, 1, 8) }

ExampleDates ==
  << Date(2019, 1, 7), Date(2019, 1, 14), Date(2019, 1, 21),
     Date(2019, 2, 4), Date(2019, 2, 11), Date(2019, 2, 18) >>

PyInt(n) == <<"int", n>>
PyFloat(n) == <<"float", n>>
PyStr(s) == <<"str", s>>
NaN == <<"nan", 0>>
None == <<"None", 0>>

DataValues == { PyInt(5), PyInt(10) }

\* What uninitialised float64 memory handed out by np.empty may hold.
Garbage == { PyFloat(0), PyFloat(1), NaN }

\* An array or list as an explicit table of its elements (f itself, with
\* every element computed once).
array(f) == f @@ << >>

SeqsUpTo(S, n) == UNION { [1..k -> S] : k \in 0..n }

(***************************************************************************)
(* datetime.date.isocalendar(), as the standard library computes it.       *)
(***************************************************************************)
is_leap(y) == (y % 4 = 0) /\ ((y % 100 # 0) \/ (y % 400 = 0))

days_before_year(y) ==
  LET p == y - 1 IN p * 365 + (p \div 4) - (p \div 100) + (p \div 400)

days_in_month(y, m) ==
  IF m = 2 THEN (IF is_leap(y) THEN 29 ELSE 28)
  ELSE IF m \in {4, 6, 9, 11} THEN 30 ELSE 31

RECURSIVE days_before_month(_, _)
days_before_month(y, m) ==
  IF m <= 1 THEN 0 ELSE days_before_month(y, m - 1) + days_in_month(y, m - 1)

ymd2ord(y, m, d) == days_before_year(y) + days_before_month(y, m) + d

isoweek1monday(year) ==
  LET firstday == ymd2ord(year, 1, 1)
      firstweekday == (firstday + 6) % 7
      week1monday == firstday - firstweekday
  IN IF firstweekday > 3 THEN week1monday + 7 ELSE week1monday

\* <<iso year, iso week number, iso weekday>>
isocalendar(day) ==
  LET today == ymd2ord(day.year, day.month, day.day)
      w0 == (today - isoweek1monday(day.year)) \div 7
      d0 == (today - isoweek1monday(day.year)) % 7
  IN IF w0 < 0
     THEN LET m1 == isoweek1monday(day.year - 1)
          IN << day.year - 1, ((today - m1) \div 7) + 1, ((today - m1) % 7) + 1 >>
     ELSE IF w0 >= 52 /\ today >= isoweek1monday(day.year + 1)
          THEN << day.year + 1, 1, d0 + 1 >>
          ELSE << day.year, w0 + 1, d0 + 1 >>

\* Every date the model feeds in, and isocalendar() of each, computed once.
AllDates == DateUniverse \cup { ExampleDates[i] : i \in DOMAIN ExampleDates }

IsoCalendarOf == [ day \in AllDates |-> isocalendar(day) ]

(***************************************************************************)
(* date_grid                                                               *)
(***************************************************************************)
n_days == 7

\* Faulty variants of week_key and day_coord: the week number without its
\* ISO year, and the weekday without the offset of 1.
week_key_week_only(iso) == << 0, iso[2] >>
day_coord_no_offset(iso) == iso[3]

\* iso_dates[:, :2], one row: the tuple (iso year, iso week).
week_key(iso) == << iso[1], iso[2] >>

\* iso_dates[:, 2] - 1, one element.
day_coord(iso) == iso[3] - 1

\* Python's ordering of two tuples of two integers.
tuple_lt(a, b) == a[1] < b[1] \/ (a[1] = b[1] /\ a[2] < b[2])

\* sorted(list(set(...))) of week tuples.
sorted(S) ==
  array([ i \in 1..Cardinality(S) |->
            CHOOSE x \in S : Cardinality({ y \in S : tuple_lt(y, x) }) = i - 1 ])

\* weeknum2idx[week]: the index of week in unique_weeks (0-based).
weeknum2idx(unique_weeks, week) ==
  (CHOOSE i \in 1..Len(unique_weeks) : unique_weeks[i] = week) - 1

\* np.empty(shape, dtype): None for dtype object, whatever the memory held
\* (fill) for float64.
np_empty(rows, cols, dt, fill) ==
  [ shape |-> << rows, cols >>,
    cells |-> array([ c \in (0..(rows - 1)) \X (0..(cols - 1)) |->
                       IF dt = "float64" THEN fill ELSE None ]) ]

\* np.nan * x for a float x: NaN whatever x is.
nan_times(x) == NaN

\* Storing a Python value into an array of the given dtype.
as_dtype(v, dt) ==
  IF dt = "float64" /\ v[1] = "int" THEN PyFloat(v[2]) ELSE v

\* grid.T
transpose(g) ==
  [ shape |-> << g.shape[2], g.shape[1] >>,
    cells |-> array([ c \in (0..(g.shape[2] - 1)) \X (0..(g.shape[1] - 1)) |->
                        g.cells[<< c[2], c[1] >>] ]) ]

\* A faulty variant of scatter: the first write to a cell wins.
scatter_first_wins(cells, week_coords, day_coords, values) ==
  array([ c \in DOMAIN cells |->
      LET writes == { i \in DOMAIN values :
                        << week_coords[i], day_coords[i] >> = c }
      IN IF writes = {} THEN cells[c]
         ELSE values[CHOOSE i \in writes : \A k \in writes : i <= k] ])

\* grid[week_coords, day_coords] = values: the elements are written in index
\* order, so a cell written more than once keeps the last value written.
scatter(cells, week_coords, day_coords, values) ==
  array([ c \in DOMAIN cells |->
      LET writes == { i \in DOMAIN values :
                        << week_coords[i], day_coords[i] >> = c }
      IN IF writes = {} THEN cells[c]
         ELSE values[CHOOSE i \in writes : \A k \in writes : k <= i] ])

NoGrid == [ shape |-> << 0, 0 >>, cells |-> << >> ]
NoAx == [ id |-> "none" ]

\* What a call leaves behind: the exception raised ("none" when it returned),
\* the grid returned, the locals week_coords and day_coords of date_grid, the
\* axes as drawn so far and the label locations computed.
Result(exc, grid, week_coords, day_coords, ax, locs) ==
  [ exc |-> exc, grid |-> grid, week_coords |-> week_coords,
    day_coords |-> day_coords, ax |-> ax, locs |-> locs ]

Outcome(exc, ax, locs) == Result(exc, NoGrid, << >>, << >>, ax, locs)

Raise(exc) == Outcome(exc, NoAx, << >>)

\* np.array([day.isocalendar() for day in dates]) of a non-empty list.
iso_dates(ds) == array([ i \in 1..Len(ds) |-> IsoCalendarOf[ds[i]] ])

\* sorted(list(set([tuple(row) for row in iso_dates[:, :2]])))
unique_weeks(iso) == sorted({ week_key(iso[i]) : i \in 1..Len(iso) })

\* np.array([weeknum2idx[tuple(week)] for week in iso_dates[:, :2]])
week_coords(iso, weeks) ==
  array([ i \in 1..Len(iso) |-> weeknum2idx(weeks, week_key(iso[i])) ])

\* iso_dates[:, 2] - 1
day_coords(iso) == array([ i \in 1..Len(iso) |-> day_coord(iso[i]) ])

\* grid = np.nan * grid if dtype == "float64" else grid
nan_grid(empty, dt) ==
  IF dt = "float64"
  THEN [ shape |-> empty.shape,
         cells |-> array([ c \in DOMAIN empty.cells |-> nan_times(empty.cells[c]) ]) ]
  ELSE empty

\* The value array of the assignment: data converted to the grid's dtype, a
\* single value being repeated for every index (numpy's broadcasting).
broadcast(vs, n, dt) ==
  array([ i \in 1..n |-> as_dtype(IF Len(vs) = 1 THEN vs[1] ELSE vs[i], dt) ])

\* A faulty variant of oriented: flip is ignored.
oriented_never(g, fl) == g

\* return grid.T if flip else grid
oriented(g, fl) == IF fl THEN transpose(g) ELSE g

\* grid[week_coords, day_coords] = data, and the return.
assign(grid, wc, dc, vs, fl, dt) ==
  IF \E i \in 1..Len(dc) : dc[i] \notin 0..(n_days - 1)
  THEN Raise("IndexError")
  ELSE IF Len(vs) # Len(wc) /\ Len(vs) # 1
  THEN \* the value array cannot be broadcast to the indexing result
       Raise("ValueError")
  ELSE IF \E i \in 1..Len(vs) : dt = "float64" /\ vs[i][1] = "str"
  THEN Raise("ValueError")
  ELSE Result("none",
              oriented([ shape |-> grid.shape,
                         cells |-> scatter(grid.cells, wc, dc,
                                           broadcast(vs, Len(wc), dt)) ], fl),
              wc, dc, NoAx, << >>)

\* date_grid from its second statement on, iso being the array iso_dates.
date_grid_iso(iso, vs, fl, dt, fill) ==
  assign(nan_grid(np_empty(Len(unique_weeks(iso)), n_days, dt, fill), dt),
         week_coords(iso, unique_weeks(iso)), day_coords(iso), vs, fl, dt)

\* date_grid(dates, data, flip, dtype) with the uninitialised memory np.empty
\* returned holding fill.
date_grid_on(ds, vs, fl, dt, fill) ==
  IF Len(ds) = 0
  THEN \* np.array([]) is 1-dimensional: iso_dates[:, :2] has too many indices.
       Raise("IndexError")
  ELSE date_grid_iso(iso_dates(ds), vs, fl, dt, fill)

\* The results date_grid can produce, over everything np.empty may hand out.
date_grid_results(ds, vs, fl, dt) ==
  { date_grid_on(ds, vs, fl, dt, fill) : fill \in Garbage }

\* The one result date_grid produces (np.nan * grid makes the memory's
\* contents irrelevant, as date_grid_results shows).
date_grid(ds, vs, fl, dt) == date_grid_on(ds, vs, fl, dt, NaN)

DefaultOpts ==
  [ colorbar |-> FALSE, date_label |-> FALSE, weekday_label |-> TRUE,
    month_label |-> FALSE, year_label |-> FALSE, ax |-> FALSE ]

(***************************************************************************)
(* The renderer.  The axes are a record of what has been drawn on them.    *)
(***************************************************************************)
Frac(n, d) == << n, d >>

\* The axes a caller passes in, before anything is drawn.
GivenAx ==
  [ id |-> "given", figsize |-> << 0, 0 >>, mesh |-> << 0, 0 >>,
    y_inverted |-> FALSE, aspect |-> "auto", colorbar |-> FALSE,
    texts |-> {}, xticks |-> << >>, xticklabels |-> << >>, xticks_top |-> FALSE,
    yticks |-> << >>, yticklabels |-> << >>, annotations |-> {},
    tick_length |-> 1 ]

\* fig, ax = plt.subplots(figsize=figsize, dpi=100)
NewAx(fl) ==
  [ GivenAx EXCEPT !.id = "new",
                   !.figsize = IF fl THEN << 10, 5 >> ELSE << 5, 10 >> ]

\* a == b elementwise, for one element: NaN equals nothing, a float equals
\* the int of the same value, None and strings equal only themselves.
np_eq(a, b) ==
  LET num(v) == v[1] \in { "int", "float" }
  IN \/ num(a) /\ num(b) /\ a[2] = b[2]
     \/ a[1] = "str" /\ b[1] = "str" /\ a[2] = b[2]
     \/ a[1] = "None" /\ b[1] = "None"

\* np.nonzero(grid == value): the <<row, column>> pairs of the cells equal
\* to value (yy are the rows, xx the columns).
nonzero_eq(g, value) == { c \in DOMAIN g.cells : np_eq(g.cells[c], value) }

set_max(S) == CHOOSE x \in S : \A y \in S : y <= x
set_min(S) == CHOOSE x \in S : \A y \in S : x <= y

\* np.ndindex(shape): the cells in row-major order.
ndindex(shape) ==
  array([ k \in 1..(shape[1] * shape[2]) |->
            << (k - 1) \div shape[2], (k - 1) % shape[2] >> ])

\* int(date_grid[i, j]) in add_date_label: date_grid is the module's function,
\* not the local day_grid, and subscripting a function raises TypeError.
date_label_value(day_grid, i, j) == [ exc |-> "TypeError", value |-> None ]

\* The outcome of the loop of add_date_label over the cells in order, got[k]
\* being what int(...) gave for the k-th cell: a ValueError is caught and the
\* cell skipped, any other exception ends the loop and propagates, and a cell
\* whose value converts is labelled at (j + 0.5, i + 0.5).
date_label_outcome(ax, cells, got, uncaught) ==
  IF uncaught = {}
  THEN Outcome("none",
               [ ax EXCEPT !.texts = @ \cup
                   { << Frac(2 * cells[k][2] + 1, 2), Frac(2 * cells[k][1] + 1, 2),
                        got[k].value >> : k \in { k \in 1..Len(cells) : got[k].exc = "none" } } ],
               << >>)
  ELSE Outcome(got[set_min(uncaught)].exc,
               [ ax EXCEPT !.texts = @ \cup
                   { << Frac(2 * cells[k][2] + 1, 2), Frac(2 * cells[k][1] + 1, 2),
                        got[k].value >> : k \in { k \in 1..(set_min(uncaught) - 1) :
                                                    got[k].exc = "none" } } ],
               << >>)

date_label_tries(ax, cells, got) ==
  date_label_outcome(ax, cells, got,
    { k \in 1..Len(cells) : got[k].exc \notin { "none", "ValueError" } })

date_label_loop(ax, day_grid, cells) ==
  date_label_tries(ax, cells,
    array([ k \in 1..Len(cells) |->
              date_label_value(day_grid, cells[k][1], cells[k][2]) ]))

\* add_date_label once day_grid is built (or date_grid has raised).
date_labels(ax, day_grid) ==
  IF day_grid.exc # "none" THEN Outcome(day_grid.exc, ax, << >>)
  ELSE date_label_loop(ax, day_grid.grid, ndindex(day_grid.grid.shape))

add_date_label(ax, ds, fl) ==
  date_labels(ax,
    date_grid(ds, array([ i \in 1..Len(ds) |-> PyInt(ds[i].day) ]), fl, "float64"))

\* calendar.weekheader(width=1).split(" ")
weekheader == << "M", "T", "W", "T", "F", "S", "S" >>

\* [x + 0.5 for x in range(0, 7)]
weekday_ticks == array([ x \in 1..7 |-> Frac(2 * (x - 1) + 1, 2) ])

add_weekday_label(ax, fl) ==
  IF fl
  THEN Outcome("none",
               [ ax EXCEPT !.yticks = weekday_ticks, !.yticklabels = weekheader ],
               << >>)
  ELSE Outcome("none",
               [ ax EXCEPT !.xticks = weekday_ticks, !.xticklabels = weekheader,
                           !.xticks_top = TRUE ],
               << >>)

\* calendar.month_abbr[1..12]
month_abbr ==
  << "Jan", "Feb", "Mar", "Apr", "May", "Jun",
     "Jul", "Aug", "Sep", "Oct", "Nov", "Dec" >>

\* str(month) of a (year, month) tuple.
str_of(month) == PyStr(ToString(month))

\* A faulty variant of month_loc: the row coordinates whatever flip is.
month_loc_rows_only(coords, fl) ==
  Frac(set_max({ c[1] : c \in coords }) + set_min({ c[1] : c \in coords }), 2)

\* (xx.max() + xx.min() if flip else yy.max() + yy.min()) / 2, coords being
\* the <<yy, xx>> pairs np.nonzero found.
month_loc(coords, fl) ==
  IF fl
  THEN Frac(set_max({ c[2] : c \in coords }) + set_min({ c[2] : c \in coords }), 2)
  ELSE Frac(set_max({ c[1] : c \in coords }) + set_min({ c[1] : c \in coords }), 2)

\* [(day.year, day.month) for day in dates]
month_years(ds) == array([ i \in 1..Len(ds) |-> << ds[i].year, ds[i].month >> ])

\* list(map(str, month_years))
month_years_str(ds) == array([ i \in 1..Len(ds) |-> str_of(month_years(ds)[i]) ])

\* The dict month_locs, as the sequence of its <<month, location>> items.
month_locs(months, grid, fl) ==
  array([ k \in 1..Len(months) |->
            << months[k], month_loc(nonzero_eq(grid, str_of(months[k])), fl) >> ])

\* set_xticks / set_yticks and the tick labels of add_month_label.
set_month_ticks(ax, locs, fl) ==
  IF fl
  THEN Outcome("none",
               [ ax EXCEPT
                   !.xticks = array([ k \in 1..Len(locs) |-> locs[k][2] ]),
                   !.xticklabels = array([ k \in 1..Len(locs) |-> month_abbr[locs[k][1][2]] ]) ],
               locs)
  ELSE Outcome("none",
               [ ax EXCEPT
                   !.yticks = array([ k \in 1..Len(locs) |-> locs[k][2] ]),
                   !.yticklabels = array([ k \in 1..Len(locs) |-> month_abbr[locs[k][1][2]] ]) ],
               locs)

\* add_month_label once month_year_grid is built (or date_grid has raised).
month_labels(ax, months, month_year_grid, fl) ==
  IF month_year_grid.exc # "none" THEN Outcome(month_year_grid.exc, ax, << >>)
  ELSE IF \E k \in 1..Len(months) :
            nonzero_eq(month_year_grid.grid, str_of(months[k])) = {}
  THEN \* max() of an empty array
       Outcome("ValueError", ax, << >>)
  ELSE set_month_ticks(ax, month_locs(months, month_year_grid.grid, fl), fl)

add_month_label(ax, ds, fl) ==
  month_labels(ax,
    sorted({ month_years(ds)[i] : i \in 1..Len(ds) }),
    date_grid(ds, month_years_str(ds), fl, "object"), fl)

\* A faulty variant of year_loc: the midpoint without the added 1.
year_loc_no_offset(coords, fl) ==
  IF fl
  THEN Frac(set_max({ c[2] : c \in coords }) + set_min({ c[2] : c \in coords }), 2)
  ELSE Frac(set_max({ c[1] : c \in coords }) + set_min({ c[1] : c \in coords }), 2)

\* (xx.max() + 1 + xx.min() if flip else yy.max() + 1 + yy.min()) / 2
year_loc(coords, fl) ==
  IF fl
  THEN Frac(set_max({ c[2] : c \in coords }) + 1 + set_min({ c[2] : c \in coords }), 2)
  ELSE Frac(set_max({ c[1] : c \in coords }) + 1 + set_min({ c[1] : c \in coords }), 2)

\* The dict year_locs, as the sequence of its <<year, location>> items
\* (years holds each year as the tuple <<year, 0>>, which sorted() orders).
year_locs(years, grid, fl) ==
  array([ k \in 1..Len(years) |->
            << years[k][1], year_loc(nonzero_eq(grid, PyInt(years[k][1])), fl) >> ])

\* The annotations of add_year_label: at (loc / year_grid.shape[1], 1) when
\* flipped, at (0, 1 - loc / len(year_grid)) otherwise.
annotate_years(ax, locs, shape, fl) ==
  Outcome("none",
    [ ax EXCEPT !.annotations = @ \cup
        { [ text |-> locs[k][1],
            xy |-> IF fl
                   THEN << Frac(locs[k][2][1], locs[k][2][2] * shape[2]), Frac(1, 1) >>
                   ELSE << Frac(0, 1),
                           Frac(locs[k][2][2] * shape[1] - locs[k][2][1],
                                locs[k][2][2] * shape[1]) >>,
            xytext |-> IF fl THEN << 0, 10 >> ELSE << -40, 0 >>,
            rotation |-> IF fl THEN 0 ELSE 90 ] : k \in 1..Len(locs) } ],
    locs)

\* add_year_label once year_grid is built (or date_grid has raised).
year_labels(ax, years, year_grid, fl) ==
  IF year_grid.exc # "none" THEN Outcome(year_grid.exc, ax, << >>)
  ELSE IF \E k \in 1..Len(years) :
            nonzero_eq(year_grid.grid, PyInt(years[k][1])) = {}
  THEN Outcome("ValueError", ax, << >>)
  ELSE annotate_years(ax, year_locs(years, year_grid.grid, fl),
                      year_grid.grid.shape, fl)

add_year_label(ax, ds, fl) ==
  year_labels(ax,
    sorted({ << ds[i].year, 0 >> : i \in 1..Len(ds) }),
    date_grid(ds, array([ i \in 1..Len(ds) |-> PyInt(ds[i].year) ]), fl, "float64"),
    fl)

\* The statements of cal_heatmap in order, each taking the outcome so far;
\* nothing more is done once an exception is under way.
mesh_step(ax, cal) ==
  Outcome("none",
          [ ax EXCEPT !.mesh = cal.shape, !.y_inverted = TRUE, !.aspect = "equal" ],
          << >>)

colorbar_step(prev, o) ==
  IF prev.exc # "none" \/ ~o.colorbar THEN prev
  ELSE IF ~o.ax
  THEN Outcome("none", [ prev.ax EXCEPT !.colorbar = TRUE ], << >>)
  ELSE \* fig is assigned only when no axes were passed
       Outcome("UnboundLocalError", prev.ax, << >>)

date_step(prev, ds, fl, o) ==
  IF prev.exc # "none" \/ ~o.date_label THEN prev
  ELSE add_date_label(prev.ax, ds, fl)

weekday_step(prev, fl, o) ==
  IF prev.exc # "none" \/ ~o.weekday_label THEN prev
  ELSE add_weekday_label(prev.ax, fl)

month_step(prev, ds, fl, o) ==
  IF prev.exc # "none" \/ ~o.month_label THEN prev
  ELSE add_month_label(prev.ax, ds, fl)

year_step(prev, ds, fl, o) ==
  IF prev.exc # "none" \/ ~o.year_label THEN prev
  ELSE add_year_label(prev.ax, ds, fl)

return_step(prev) ==
  IF prev.exc # "none" THEN Outcome(prev.exc, prev.ax, << >>)
  ELSE Outcome("none", [ prev.ax EXCEPT !.tick_length = 0 ], << >>)

\* cal_heatmap(cal, dates, flip, colorbar=..., date_label=..., ..., ax=...)
\* with the default cmap; o.ax tells whether the caller passed axes.
cal_heatmap(cal, ds, fl, o) ==
  return_step(
    year_step(
      month_step(
        weekday_step(
          date_step(
            colorbar_step(mesh_step(IF o.ax THEN GivenAx ELSE NewAx(fl), cal), o),
            ds, fl, o),
          fl, o),
        ds, fl, o),
      ds, fl, o))

(***************************************************************************)
(* Specification of the grid builder: the inputs are drawn, date_grid is   *)
(* applied to them.                                                        *)
(***************************************************************************)
Init ==
  /\ pc = "start"
  /\ op = "none"
  /\ dates \in SeqsUpTo(DateUniverse, MaxLen)
  /\ data \in SeqsUpTo(DataValues, MaxLen)
  /\ flip \in BOOLEAN
  /\ dtype \in { "float64", "object" }
  /\ opts = DefaultOpts
  /\ ret = Raise("none")

DateGrid ==
  /\ pc = "start"
  /\ pc' = "done"
  /\ op' = "date_grid"
  /\ ret' \in date_grid_results(dates, data, flip, dtype)
  /\ UNCHANGED << dates, data, flip, dtype, opts >>

Next == DateGrid

Spec == Init /\ [][Next]_vars

(***************************************************************************)
(* Specification of the renderer: a list of dates and an orientation are   *)
(* drawn, and one of the renderer's functions is applied to them.  The     *)
(* series has the value i for its i-th date; cal_heatmap is handed the     *)
(* grid date_grid builds from it.                                          *)
(***************************************************************************)
InitRender ==
  /\ pc = "start"
  /\ op = "none"
  /\ \/ dates \in SeqsUpTo(RenderUniverse, MaxLen)
     \/ dates = ExampleDates
  /\ data = [ i \in 1..Len(dates) |-> PyInt(i) ]
  /\ flip \in BOOLEAN
  /\ dtype = "float64"
  /\ opts = DefaultOpts
  /\ ret = Raise("none")

Call(name, result) ==
  /\ pc = "start"
  /\ pc' = "done"
  /\ op' = name
  /\ ret' = result
  /\ UNCHANGED << dates, data, flip, dtype >>

AddDateLabel ==
  Call("add_date_label", add_date_label(GivenAx, dates, flip)) /\ UNCHANGED opts

AddWeekdayLabel ==
  Call("add_weekday_label", add_weekday_label(GivenAx, flip)) /\ UNCHANGED opts

AddMonthLabel ==
  Call("add_month_label", add_month_label(GivenAx, dates, flip)) /\ UNCHANGED opts

AddYearLabel ==
  Call("add_year_label", add_year_label(GivenAx, dates, flip)) /\ UNCHANGED opts

CalHeatmap ==
  \E o \in [ colorbar : BOOLEAN, date_label : BOOLEAN, weekday_label : BOOLEAN,
             month_label : BOOLEAN, year_label : BOOLEAN, ax : BOOLEAN ] :
    /\ pc = "start"
    /\ date_grid(dates, data, flip, dtype).exc = "none"
    /\ Call("cal_heatmap",
            cal_heatmap(date_grid(dates, data, flip, dtype).grid, dates, flip, o))
    /\ opts' = o

NextRender ==
  \/ AddDateLabel
  \/ AddWeekdayLabel
  \/ AddMonthLabel
  \/ AddYearLabel
  \/ CalHeatmap

SpecRender == InitRender /\ [][NextRender]_vars

(***************************************************************************)
(* Properties of date_grid.                                                *)
(***************************************************************************)
Returned == pc = "done" /\ op = "date_grid"

\* The ISO (year, week) pair of a date, from the calendar alone.
IsoWeekOf(day) == << IsoCalendarOf[day][1], IsoCalendarOf[day][2] >>
IsoWeekdayOf(day) == IsoCalendarOf[day][3]

IsoWeeks(ds) == { IsoWeekOf(ds[i]) : i \in 1..Len(ds) }

Earlier(a, b) == a[1] < b[1] \/ (a[1] = b[1] /\ a[2] < b[2])

\* The rank of a week among the distinct weeks of ds, ascending.
Rank(ds, w) == Cardinality({ k \in IsoWeeks(ds) : Earlier(k, w) })

Distinct(ds) == \A i, j \in 1..Len(ds) : ds[i] = ds[j] => i = j

Missing(dt) == IF dt = "float64" THEN NaN ELSE None

Stored(v, dt) == IF dt = "float64" THEN << "float", v[2] >> ELSE v

\* The grid in weeks x weekdays orientation, whatever flip is.
Upright(g, fl) ==
  IF fl THEN [ c \in (0..(g.shape[2] - 1)) \X (0..(g.shape[1] - 1)) |->
                 g.cells[<< c[2], c[1] >>] ]
  ELSE g.cells

\* C1: for a non-empty list of dates with a parallel data list, date_grid
\* returns a grid of shape (n_weeks, 7), or (7, n_weeks) when flip is set,
\* where n_weeks is the number of distinct ISO (year, week) pairs of the dates.
C1_GridShape ==
  (Returned /\ Len(dates) > 0 /\ Len(data) = Len(dates)) =>
    /\ ret.exc = "none"
    /\ ret.grid.shape = IF flip THEN << 7, Cardinality(IsoWeeks(dates)) >>
                        ELSE << Cardinality(IsoWeeks(dates)), 7 >>
    /\ DOMAIN ret.grid.cells =
         (0..(ret.grid.shape[1] - 1)) \X (0..(ret.grid.shape[2] - 1))

\* A flipped grid of three distinct weeks, two of them numbered 1.
C1_Witness ==
  /\ Returned /\ flip /\ Len(data) = Len(dates)
  /\ dates = << Date(2020, 1, 1), Date(2019, 1, 1), Date(2018, 12, 30) >>
  /\ ret.grid.shape = << 7, 3 >>

\* C2: for distinct dates with a parallel data list, the cell [w, d] ([d, w]
\* when flip is set) of the rank w of a date's ISO week and its ISO weekday
\* minus 1 holds the value paired with the date, every other cell holds the
\* missing marker, and the flipped grid is the transpose of the unflipped one.
C2_CellsHoldPairedValues ==
  (Returned /\ Len(dates) > 0 /\ Len(data) = Len(dates) /\ Distinct(dates)) =>
    /\ ret.exc = "none"
    /\ \A w \in 0..(Cardinality(IsoWeeks(dates)) - 1), d \in 0..6 :
         LET at == { i \in 1..Len(dates) :
                       /\ Rank(dates, IsoWeekOf(dates[i])) = w
                       /\ IsoWeekdayOf(dates[i]) - 1 = d }
             cell == IF flip THEN ret.grid.cells[<< d, w >>]
                     ELSE ret.grid.cells[<< w, d >>]
         IN /\ Cardinality(at) <= 1
            /\ \A i \in at : cell = Stored(data[i], dtype)
            /\ (at = {}) => cell = Missing(dtype)
    /\ LET other == date_grid(dates, data, ~flip, dtype) IN
         /\ other.grid.shape = << ret.grid.shape[2], ret.grid.shape[1] >>
         /\ \A c \in DOMAIN ret.grid.cells :
              ret.grid.cells[c] = other.grid.cells[<< c[2], c[1] >>]

\* The example of two Fridays a week apart, values 5 and 10.
C2_Witness ==
  /\ Returned /\ ~flip /\ dtype = "float64"
  /\ dates = << Date(2021, 1, 1), Date(2021, 1, 8) >>
  /\ data = << PyInt(5), PyInt(10) >>
  /\ ret.grid.shape = << 2, 7 >>
  /\ ret.grid.cells[<< 0, 4 >>] = PyFloat(5)
  /\ ret.grid.cells[<< 1, 4 >>] = PyFloat(10)
  /\ ret.grid.cells[<< 0, 0 >>] = NaN

\* C3: two input dates are given the same week row exactly when their ISO
\* (year, week) pairs are equal, and each date's value is written in its row.
C3_SameRowIffSameIsoWeek ==
  (Returned /\ Len(dates) > 0 /\ Len(data) = Len(dates)) =>
    /\ ret.exc = "none"
    /\ \A i, j \in 1..Len(dates) :
         (ret.week_coords[i] = ret.week_coords[j])
           <=> (IsoWeekOf(dates[i]) = IsoWeekOf(dates[j]))
    /\ \A i \in 1..Len(dates) :
         Upright(ret.grid, flip)[<< ret.week_coords[i], IsoWeekdayOf(dates[i]) - 1 >>]
           \in { Stored(data[k], dtype) : k \in { k \in 1..Len(dates) : dates[k] = dates[i] } }

\* Dec 31, 2018 and Jan 1, 2019 share a row; Jan 1, 2020 (same ISO week
\* number, another ISO year) is in another row.
C3_Witness ==
  /\ Returned /\ Len(data) = Len(dates)
  /\ dates = << Date(2018, 12, 31), Date(2020, 1, 1), Date(2019, 1, 1) >>
  /\ ret.week_coords = << 0, 1, 0 >>

\* The dates and values with every occurrence of a date but its last removed.
LastOccurrences(ds) ==
  { i \in 1..Len(ds) : \A j \in 1..Len(ds) : ds[j] = ds[i] => j <= i }

Pick(s, keep) ==
  [ k \in 1..Cardinality(keep) |->
      s[CHOOSE i \in keep : Cardinality({ j \in keep : j < i }) = k - 1] ]

\* C4: when a date occurs more than once, its cell holds the value paired
\* with its last occurrence, and the grid is the one built from the last
\* occurrences alone.
C4_LastWriteWins ==
  (Returned /\ Len(dates) > 0 /\ Len(data) = Len(dates)) =>
    /\ ret.exc = "none"
    /\ \A i \in LastOccurrences(dates) :
         Upright(ret.grid, flip)[<< Rank(dates, IsoWeekOf(dates[i])),
                                    IsoWeekdayOf(dates[i]) - 1 >>]
           = Stored(data[i], dtype)
    /\ ret.grid = date_grid(Pick(dates, LastOccurrences(dates)),
                            Pick(data, LastOccurrences(dates)),
                            flip, dtype).grid

\* The same date twice with different values: the second value is kept.
C4_Witness ==
  /\ Returned /\ ~flip /\ dtype = "object"
  /\ dates = << Date(2021, 1, 1), Date(2021, 1, 8), Date(2021, 1, 1) >>
  /\ data = << PyInt(5), PyInt(5), PyInt(10) >>
  /\ ret.grid.shape = << 2, 7 >>
  /\ ret.grid.cells[<< 0, 4 >>] = PyInt(10)

\* C5: date_grid of an empty dates list and an empty data list yields an
\* empty (zero-week) grid rather than failing.
C5_EmptyYieldsEmptyGrid ==
  (Returned /\ Len(dates) = 0 /\ Len(data) = 0) =>
    /\ ret.exc = "none"
    /\ 0 \in { ret.grid.shape[1], ret.grid.shape[2] }

\* C7: date_grid of a dates list and a data list of different lengths fails
\* with an error and returns no grid.
C7_UnequalLengthsFail ==
  (Returned /\ Len(data) # Len(dates)) => ret.exc # "none"

(***************************************************************************)
(* Properties of the renderer.                                             *)
(***************************************************************************)
Called(name) == pc = "done" /\ op = name

\* The cell <<row, column>> of the drawn grid that a date maps to.
CellOf(ds, day, fl) ==
  IF fl THEN << IsoWeekdayOf(day) - 1, Rank(ds, IsoWeekOf(day)) >>
  ELSE << Rank(ds, IsoWeekOf(day)), IsoWeekdayOf(day) - 1 >>

\* The date labels wanted: the day of the month at the centre of each cell
\* that a date maps to, and nothing else.
DateLabelsWanted(ds, fl) ==
  { << << 2 * CellOf(ds, ds[i], fl)[2] + 1, 2 >>,
       << 2 * CellOf(ds, ds[i], fl)[1] + 1, 2 >>,
       PyInt(ds[i].day) >> : i \in 1..Len(ds) }

\* C6: for a non-empty list of dates, add_date_label, and cal_heatmap with
\* date_label set, complete without an error, write the day of the month in
\* each cell a date maps to and write nothing in a missing cell.
C6_DateLabelsDrawn ==
  /\ (Called("add_date_label") /\ Len(dates) > 0) =>
       ret.exc = "none" /\ ret.ax.texts = DateLabelsWanted(dates, flip)
  /\ (Called("cal_heatmap") /\ opts.date_label /\ ~opts.colorbar) =>
       ret.exc = "none" /\ ret.ax.texts = DateLabelsWanted(dates, flip)

\* C8: cal_heatmap, for every combination of colorbar, weekday_label,
\* month_label and year_label and with or without axes passed in, completes
\* and returns the axes it drew on: those passed in, or new ones.
C8_HeatmapReturnsAxes ==
  (Called("cal_heatmap") /\ ~opts.date_label) =>
    /\ ret.exc = "none"
    /\ ret.ax.id = IF opts.ax THEN "given" ELSE "new"
    /\ ret.ax.colorbar = opts.colorbar

Months(ds) == { << ds[i].year, ds[i].month >> : i \in 1..Len(ds) }
Years(ds) == { ds[i].year : i \in 1..Len(ds) }

\* The week indices of the cells of a month, and of a year.
WeeksOfMonth(ds, m) ==
  { Rank(ds, IsoWeekOf(ds[i])) :
      i \in { i \in 1..Len(ds) : << ds[i].year, ds[i].month >> = m } }
WeeksOfYear(ds, y) ==
  { Rank(ds, IsoWeekOf(ds[i])) : i \in { i \in 1..Len(ds) : ds[i].year = y } }

Least(S) == CHOOSE x \in S : \A y \in S : x <= y
Greatest(S) == CHOOSE x \in S : \A y \in S : y <= x

\* The months in ascending order with (min + max) / 2 of their week indices.
MonthMidpoints(ds) ==
  [ k \in 1..Cardinality(Months(ds)) |->
      LET m == CHOOSE m \in Months(ds) :
                 Cardinality({ n \in Months(ds) : Earlier(n, m) }) = k - 1
      IN << m, << Least(WeeksOfMonth(ds, m)) + Greatest(WeeksOfMonth(ds, m)), 2 >> >> ]

\* The ticks and tick labels along the weeks axis, and those along the other.
WeekAxisTicks(ax, fl) == IF fl THEN ax.xticks ELSE ax.yticks
WeekAxisLabels(ax, fl) == IF fl THEN ax.xticklabels ELSE ax.yticklabels

MonthNames ==
  << "Jan", "Feb", "Mar", "Apr", "May", "Jun",
     "Jul", "Aug", "Sep", "Oct", "Nov", "Dec" >>

\* C9: add_month_label makes exactly one label per distinct (year, month),
\* placed along the weeks axis at (min + max) / 2 of the week indices of the
\* cells of that month.
C9_MonthLabelMidpoint ==
  /\ (Called("add_month_label") /\ Len(dates) > 0) =>
       /\ ret.exc = "none"
       /\ ret.locs = MonthMidpoints(dates)
  /\ ((Called("add_month_label") /\ Len(dates) > 0)
       \/ (Called("cal_heatmap") /\ opts.month_label /\ ret.exc = "none")) =>
       /\ Len(WeekAxisTicks(ret.ax, flip)) = Cardinality(Months(dates))
       /\ \A k \in 1..Cardinality(Months(dates)) :
            /\ WeekAxisTicks(ret.ax, flip)[k] = MonthMidpoints(dates)[k][2]
            /\ WeekAxisLabels(ret.ax, flip)[k]
                 = MonthNames[MonthMidpoints(dates)[k][1][2]]

\* February spans the week indices 3 to 5 and is labelled at 8 / 2 = 4;
\* the grid is flipped, so the weeks are the columns.
C9_Witness ==
  /\ Called("add_month_label") /\ flip
  /\ dates = ExampleDates
  /\ ret.locs = << << << 2019, 1 >>, << 2, 2 >> >>, << << 2019, 2 >>, << 8, 2 >> >> >>
  /\ ret.ax.xticks = << << 2, 2 >>, << 8, 2 >> >>
  /\ ret.ax.xticklabels = << "Jan", "Feb" >>

\* The years in ascending order with the given location of each.
YearLocations(ds, Loc(_)) ==
  [ k \in 1..Cardinality(Years(ds)) |->
      LET y == CHOOSE y \in Years(ds) :
                 Cardinality({ z \in Years(ds) : z < y }) = k - 1
      IN << y, Loc(WeeksOfYear(ds, y)) >> ]

MidCell(W) == << Least(W) + Greatest(W), 2 >>
MidSpan(W) == << Least(W) + Greatest(W) + 1, 2 >>

\* C10 as stated: add_year_label places each year at the average of the least
\* and greatest week index of the cells of the year, the (min + max) / 2 of
\* add_month_label.
C10_YearLabelAtMonthMidpoint ==
  (Called("add_year_label") /\ Len(dates) > 0) =>
    /\ ret.exc = "none"
    /\ ret.locs = YearLocations(dates, MidCell)

\* C10 amended: add_year_label places each year at (min + max + 1) / 2 of the
\* week indices of the cells of the year, half a cell beyond the midpoint of
\* add_month_label, and annotates that location as a fraction of the number
\* of weeks: (loc / n_weeks, 1) when flipped, (0, 1 - loc / n_weeks) otherwise.
C10_YearLabelMidSpan ==
  (Called("add_year_label") /\ Len(dates) > 0) =>
    /\ ret.exc = "none"
    /\ ret.locs = YearLocations(dates, MidSpan)
    /\ ret.ax.annotations =
         { [ text |-> y,
             xy |-> LET loc == Least(WeeksOfYear(dates, y))
                                 + Greatest(WeeksOfYear(dates, y)) + 1
                        n == Cardinality(IsoWeeks(dates))
                    IN IF flip THEN << << loc, 2 * n >>, << 1, 1 >> >>
                       ELSE << << 0, 1 >>, << 2 * n - loc, 2 * n >> >>,
             xytext |-> IF flip THEN << 0, 10 >> ELSE << -40, 0 >>,
             rotation |-> IF flip THEN 0 ELSE 90 ] : y \in Years(dates) }

\* 2019 fills the week indices 0 to 5 and is placed at 6 / 2 = 3, not 5 / 2.
C10_Witness ==
  /\ Called("add_year_label") /\ ~flip
  /\ dates = ExampleDates
  /\ ret.locs = << << 2019, << 6, 2 >> >> >>
  /\ \E a \in ret.ax.annotations : a.xy = << << 0, 1 >>, << 6, 12 >> >>

====
